---- MODULE Spec2Model ----
(***************************************************************************)
(* Model of QuantEngine (src/quant_engine.py): the portfolio loader, the   *)
(* symbol mapper, the strategy lock store and the per-stock decision tree. *)
(*                                                                         *)
(* Python strings are sequences of one-character strings, so that strip,   *)
(* upper, lower, replace and the substring test `in` are computed and not  *)
(* assumed.  A DataFrame cell is a record: a NaN cell, a string cell or a  *)
(* numeric cell.                                                           *)
(***************************************************************************)
EXTENDS Integers, Sequences, FiniteSets, TLC

VARIABLES
  pc,             \* "constructed" until load_portfolio has run on this engine
  portfolio,      \* engine.portfolio: the Holding records of the last successful load
  csv,            \* the table handed to the last load_portfolio call
  load_result,    \* what that call returned
  map_args,       \* arguments of the last direct _map_symbol call
  map_result,     \* its return value
  strategy_map,   \* engine.strategy_map: resolved symbol -> locked preset
  config_file,    \* strategy_config.json on disk
  op,             \* the engine operation that ran last
  raised,         \* the exception that operation let escape, or "none"
  get_args,       \* arguments of the last get_active_strategy call
  get_result,     \* its return value
  series,         \* what yf.download and the indicator library yield for the ticker
  diagnosis,      \* what the last diagnose_stock_pro call returned
  page,           \* the line of app.py the page run has reached
  message,        \* what the page run has shown the user about its input
  dashboard_data, \* the signal texts of the dashboard rows, in row order
  push,           \* the push-signal handler: "idle", "looping", "done", "crashed"
  idx,            \* the row the push loop is at
  count,          \* the count the push loop keeps
  sent,           \* one entry per send_telegram_message call of the loop
  notice,         \* what the handler shows when the loop is over
  qqq,            \* what the downloads and ta.adx yield for analyze_nasdaq_pro
  nasdaq          \* what the last analyze_nasdaq_pro call returned

vars == <<pc, portfolio, csv, load_result, map_args, map_result,
          strategy_map, config_file, op, raised, get_args, get_result,
          series, diagnosis, page, message,
          dashboard_data, push, idx, count, sent, notice, qqq, nasdaq>>

diag_vars == <<series, diagnosis>>

app_vars == <<page, message>>

push_vars == <<dashboard_data, push, idx, count, sent, notice>>

radar_vars == <<qqq, nasdaq>>

loader_vars == <<pc, portfolio, csv, load_result>>

mapper_vars == <<map_args, map_result>>

store_vars == <<strategy_map, config_file>>

get_vars == <<get_args, get_result>>

\* ------------------------------------------------------------------------
\* Bounds of the model
\* ------------------------------------------------------------------------
\* rows of the dashboard table the push loop walks
MaxItems == 2

\* the largest ADX reading drawn (the index lies in 0..100)
MaxAdx == 100

MaxRows == 2

\* ------------------------------------------------------------------------
\* Python string primitives
\* ------------------------------------------------------------------------
LowerLetters ==
  <<"a","b","c","d","e","f","g","h","i","j","k","l","m",
    "n","o","p","q","r","s","t","u","v","w","x","y","z">>

UpperLetters ==
  <<"A","B","C","D","E","F","G","H","I","J","K","L","M",
    "N","O","P","Q","R","S","T","U","V","W","X","Y","Z">>

UpperOf ==
  [c \in {LowerLetters[k] : k \in 1..26} |->
     UpperLetters[CHOOSE k \in 1..26 : LowerLetters[k] = c]]

LowerOf ==
  [c \in {UpperLetters[k] : k \in 1..26} |->
     LowerLetters[CHOOSE k \in 1..26 : UpperLetters[k] = c]]

UpperChar(c) == IF c \in DOMAIN UpperOf THEN UpperOf[c] ELSE c

LowerChar(c) == IF c \in DOMAIN LowerOf THEN LowerOf[c] ELSE c

\* str.upper()
Upper(s) == [i \in 1..Len(s) |-> UpperChar(s[i])]

\* str.lower()
Lower(s) == [i \in 1..Len(s) |-> LowerChar(s[i])]

IsSpace(c) == c \in {" ", "\t"}

\* str.strip(): drop leading and trailing whitespace
Strip(s) ==
  LET nonspace == {i \in 1..Len(s) : ~IsSpace(s[i])}
  IN IF nonspace = {} THEN << >>
     ELSE LET lo == CHOOSE i \in nonspace : \A j \in nonspace : i <= j
              hi == CHOOSE i \in nonspace : \A j \in nonspace : i >= j
          IN SubSeq(s, lo, hi)

\* the substring test: sub in s
Contains(sub, s) ==
  \E i \in 0..(Len(s) - Len(sub)) : SubSeq(s, i + 1, i + Len(sub)) = sub

\* str.replace(a, b) for one-character a and b
ReplaceChar(s, a, b) == [i \in 1..Len(s) |-> IF s[i] = a THEN b ELSE s[i]]

\* ------------------------------------------------------------------------
\* String literals of the source
\* ------------------------------------------------------------------------
L_nan     == <<"n","a","n">>
L_GOLD    == <<"G","O","L","D">>
L_BARRICK == <<"B","A","R","R","I","C","K">>
L_GCF     == <<"G","C","=","F">>
L_TO      == <<"T","O">>
L_NE      == <<"N","E">>
L_CAD     == <<"C","A","D">>
L_CDR     == <<"C","D","R">>
L_NEO     == <<"N","E","O">>
L_dotNE   == <<".","N","E">>
L_dotTO   == <<".","T","O">>
L_USD     == <<"-","U","S","D">>
L_Unknown == <<"U","n","k","n","o","w","n">>
L_Symbol   == <<"S","y","m","b","o","l">>
L_Name     == <<"N","a","m","e">>
L_Exchange == <<"E","x","c","h","a","n","g","e">>
L_Currency == <<"C","u","r","r","e","n","c","y">>
L_Quantity == <<"Q","u","a","n","t","i","t","y">>
L_BUY      == <<"B","U","Y">>
L_SELL     == <<"S","E","L","L">>
L_ProMode  == <<"P","r","o"," ","M","o","d","e">>

crypto_list ==
  { <<"B","T","C">>, <<"E","T","H">>, <<"S","O","L">>,
    <<"D","O","G","E">>, <<"A","D","A">> }

\* ------------------------------------------------------------------------
\* QuantEngine._map_symbol
\* ------------------------------------------------------------------------
\* variant: the override compares the symbol as written, not uppercased
map_symbol_exact_case(symbol, exchange, name, currency) ==
  LET symbol_upper == Upper(symbol)
  IN IF symbol = L_GOLD /\ ~Contains(L_BARRICK, Upper(name))
       THEN L_GCF
     ELSE IF Contains(<<".">>, symbol_upper)
             /\ (Contains(L_TO, symbol_upper) \/ Contains(L_NE, symbol_upper))
       THEN symbol_upper
     ELSE IF Upper(currency) = L_CAD
       THEN IF Contains(L_CDR, Upper(name)) \/ Contains(L_NEO, exchange)
              THEN ReplaceChar(symbol_upper, ".", "-") \o L_dotNE
              ELSE ReplaceChar(symbol_upper, ".", "-") \o L_dotTO
     ELSE IF (exchange = << >> \/ Lower(exchange) = L_nan)
             /\ symbol_upper \in crypto_list
       THEN symbol_upper \o L_USD
     ELSE symbol_upper

_map_symbol(symbol, exchange, name, currency) ==
  LET symbol_upper == Upper(symbol)
  IN IF symbol_upper = L_GOLD /\ ~Contains(L_BARRICK, Upper(name))
       THEN L_GCF
     ELSE IF Contains(<<".">>, symbol_upper)
             /\ (Contains(L_TO, symbol_upper) \/ Contains(L_NE, symbol_upper))
       THEN symbol_upper
     ELSE IF Upper(currency) = L_CAD
       THEN IF Contains(L_CDR, Upper(name)) \/ Contains(L_NEO, exchange)
              THEN ReplaceChar(symbol_upper, ".", "-") \o L_dotNE
              ELSE ReplaceChar(symbol_upper, ".", "-") \o L_dotTO
     ELSE IF (exchange = << >> \/ Lower(exchange) = L_nan)
             /\ symbol_upper \in crypto_list
       THEN symbol_upper \o L_USD
     ELSE symbol_upper

\* ------------------------------------------------------------------------
\* DataFrame cells and their Python conversions
\* ------------------------------------------------------------------------
NaNCell    == [k |-> "nan", s |-> << >>, v |-> 0]
StrCell(s) == [k |-> "str", s |-> s, v |-> 0]
NumCell(v) == [k |-> "num", s |-> << >>, v |-> v]

\* pd.isna(cell)
IsNa(cell) == cell.k = "nan"

Digits == <<"0","1","2","3","4","5","6","7","8","9">>

IsDigit(c) == \E d \in 1..10 : Digits[d] = c

DigitVal(c) == (CHOOSE d \in 1..10 : Digits[d] = c) - 1

RECURSIVE DigitsValue(_)
DigitsValue(s) ==
  IF s = << >> THEN 0
  ELSE 10 * DigitsValue(SubSeq(s, 1, Len(s) - 1)) + DigitVal(s[Len(s)])

DigitsStr(n) == <<Digits[n + 1]>>

\* str(cell): 'nan' for a NaN cell, the text of a string cell, the decimal
\* digits of a (small, non-negative) numeric cell
PyStr(cell) ==
  IF cell.k = "nan" THEN L_nan
  ELSE IF cell.k = "str" THEN cell.s
  ELSE DigitsStr(cell.v)

\* float(cell): a number, NaN, or a ValueError (ok = FALSE) for text that
\* is not a number; whitespace around the number is accepted
PyFloat(cell) ==
  IF cell.k = "nan" THEN [ok |-> TRUE, nan |-> TRUE, v |-> 0]
  ELSE IF cell.k = "num" THEN [ok |-> TRUE, nan |-> FALSE, v |-> cell.v]
  ELSE LET t    == Strip(cell.s)
           neg  == t # << >> /\ t[1] = "-"
           body == IF neg THEN Tail(t) ELSE t
       IN IF body # << >> /\ \A i \in 1..Len(body) : IsDigit(body[i])
            THEN [ok |-> TRUE, nan |-> FALSE,
                  v |-> IF neg THEN 0 - DigitsValue(body) ELSE DigitsValue(body)]
            ELSE [ok |-> FALSE, nan |-> FALSE, v |-> 0]

\* ------------------------------------------------------------------------
\* The table pd.read_csv produces: a header and rows.  An empty header is
\* an empty file, on which read_csv raises.
\* ------------------------------------------------------------------------
\* lines 32-33: a column of that name after df.columns was stripped
HasColumn(t, col) == \E i \in 1..Len(t.header) : Strip(t.header[i]) = col

\* row.get(col, default) with the default already a cell
RowGet(t, row, col, field, default) ==
  IF HasColumn(t, col) THEN row[field] ELSE default

\* lines 43-46: qty = float(row.get('Quantity', 0)), 0.0 when float raises
RowQty(t, row) ==
  LET f == PyFloat(RowGet(t, row, L_Quantity, "Quantity", NumCell(0)))
  IN IF f.ok THEN f ELSE [ok |-> TRUE, nan |-> FALSE, v |-> 0]

\* lines 36-39: the symbol text of a row, after the null test and strip
RowSymbol(row) == Strip(PyStr(row.Symbol))

RowName(t, row) == PyStr(RowGet(t, row, L_Name, "Name", StrCell(L_Unknown)))

\* line 47: the resolved symbol of a row
RowTicker(t, row) ==
  _map_symbol(RowSymbol(row),
              PyStr(RowGet(t, row, L_Exchange, "Exchange", StrCell(<< >>))),
              RowName(t, row),
              PyStr(RowGet(t, row, L_Currency, "Currency", StrCell(<< >>))))

\* variant: the empty-text test of line 39 is missing
RowKept_no_empty_test(t, row) ==
  /\ ~IsNa(row.Symbol)
  /\ Lower(Strip(PyStr(row.Symbol))) # L_nan
  /\ ~Contains(L_nan, Lower(RowTicker(t, row)))

\* variant: the placeholder test of line 48 does not lowercase the symbol
RowKept_case_sensitive(t, row) ==
  /\ ~IsNa(row.Symbol)
  /\ Strip(PyStr(row.Symbol)) # << >>
  /\ Lower(Strip(PyStr(row.Symbol))) # L_nan
  /\ ~Contains(L_nan, RowTicker(t, row))

\* the `continue` tests of the loop body, lines 37, 39 and 48; the
\* quantity is parsed (lines 43-46) and then never consulted
RowKept(t, row) ==
  /\ ~IsNa(row.Symbol)
  /\ RowSymbol(row) # << >>
  /\ Lower(RowSymbol(row)) # L_nan
  /\ ~Contains(L_nan, Lower(RowTicker(t, row)))

\* line 49: the record appended for a kept row
RowRecord(t, row) ==
  [Symbol |-> RowSymbol(row), YF_Ticker |-> RowTicker(t, row), Name |-> RowName(t, row)]

\* lines 34-50: portfolio_list after the loop
PortfolioList(t) ==
  LET kept == SelectSeq(t.rows, LAMBDA row : RowKept(t, row))
  IN [i \in 1..Len(kept) |-> RowRecord(t, kept[i])]

\* the value load_portfolio returns
LoadResult(t) ==
  IF t.header = << >>
    THEN [ok |-> FALSE, reason |-> "parse_failed", n |-> 0]
  ELSE IF ~HasColumn(t, L_Symbol)
    THEN [ok |-> FALSE, reason |-> "missing_symbol", n |-> 0]
  ELSE [ok |-> TRUE, reason |-> "loaded", n |-> Len(PortfolioList(t))]

\* ------------------------------------------------------------------------
\* Inputs of the loader
\* ------------------------------------------------------------------------
T_AAPL  == <<"A","A","P","L">>
T_aapl  == <<" ","a","a","p","l">>
T_NANO  == <<"N","A","N","O">>
T_SHOP  == <<"S","H","O","P">>
T_BTC   == <<"B","T","C">>
T_blank == <<" "," ">>
T_NaN   == <<" ","N","a","N"," ">>
T_Apple == <<"A","p","p","l","e">>
T_Bullion == <<"G","o","l","d"," ","B","u","l","l","i","o","n">>
T_USD   == <<"U","S","D">>
T_TSX   == <<"T","S","X">>
T_5     == <<"5">>
T_0     == <<"0">>
T_neg1  == <<"-","1">>
T_abc   == <<"a","b","c">>

Row(sym, name, exch, cur, qty) ==
  [Symbol |-> sym, Name |-> name, Exchange |-> exch, Currency |-> cur, Quantity |-> qty]

\* Symbol, Name, Exchange and Currency cells of a row
RowIdentities ==
  { <<NaNCell,          StrCell(T_Apple),   NaNCell,        StrCell(T_USD)>>,
    <<StrCell(T_blank), StrCell(T_Apple),   NaNCell,        StrCell(T_USD)>>,
    <<StrCell(T_NaN),   NaNCell,            NaNCell,        NaNCell>>,
    <<StrCell(T_aapl),  StrCell(T_Apple),   NaNCell,        StrCell(T_USD)>>,
    <<StrCell(T_NANO),  NaNCell,            NaNCell,        StrCell(T_USD)>>,
    <<StrCell(T_SHOP),  NaNCell,            StrCell(T_TSX), StrCell(L_CAD)>> }

\* Quantity cells: a positive, a zero, a negative and an unparsable text,
\* and the NaN of a blank cell
RowQuantities ==
  { StrCell(T_5), StrCell(T_0), StrCell(T_neg1), StrCell(T_abc), NaNCell }

RowPool ==
  { Row(id[1], id[2], id[3], id[4], q) : id \in RowIdentities, q \in RowQuantities }

H_full  == <<L_Symbol, L_Name, L_Exchange, L_Currency, L_Quantity>>
H_short == << <<" ","S","y","m","b","o","l"," ">>, L_Name >>
H_other == << <<"T","i","c","k","e","r">>, L_Quantity >>

RECURSIVE RowSeqs(_)
RowSeqs(n) ==
  IF n = 0 THEN { << >> }
  ELSE LET shorter == RowSeqs(n - 1)
       IN shorter \cup { Append(rs, r) : rs \in {x \in shorter : Len(x) = n - 1}, r \in RowPool }

\* tables with a Symbol column, tables without one, and the empty file
Tables ==
  { [header |-> h, rows |-> rs] : h \in {H_full, H_short}, rs \in RowSeqs(MaxRows) }
    \cup { [header |-> H_other, rows |-> rs] : rs \in RowSeqs(1) }
    \cup { [header |-> << >>, rows |-> << >>] }

\* ------------------------------------------------------------------------
\* Inputs of a direct _map_symbol call
\* ------------------------------------------------------------------------
MapSymbols ==
  { L_GOLD, <<"g","o","l","d">>, T_AAPL, T_BTC,
    <<"S","H","O","P",".","T","O">>, <<"b","r","k",".","b">>, <<"E","T","H">> }

MapExchanges == { << >>, L_nan, L_NEO, T_TSX }

MapNames ==
  { T_Bullion, <<"B","a","r","r","i","c","k"," ","G","o","l","d">>,
    <<"A","m","a","z","o","n"," ","C","D","R">>, L_nan }

MapCurrencies == { << >>, L_CAD, <<"c","a","d">>, T_USD }

NoCall == [symbol |-> << >>, exchange |-> << >>, name |-> << >>, currency |-> << >>]

MapCalls ==
  {NoCall} \cup
  [symbol : MapSymbols, exchange : MapExchanges, name : MapNames, currency : MapCurrencies]

\* ------------------------------------------------------------------------
\* Strategy lock store: the JSON document and the file that holds it
\* ------------------------------------------------------------------------
\* the preset names offered for locking (app.py line 176)
Presets == {"SMA Cross", "SMA Reversal", "RSI", "Bollinger"}

\* the default the sandbox passes when nothing is locked (app.py line 169)
NoLock == "follow default"

Defaults == Presets \cup {NoLock}

Tickers == {T_AAPL, L_GCF}

EmptyMap == << >>

\* every dict from resolved symbols to presets
StrategyMaps == UNION { [D -> Presets] : D \in SUBSET Tickers }

\* json.dump of a dict: the members of one JSON object
JsonDump(map) == { <<k, map[k]>> : k \in DOMAIN map }

\* json.load of a JSON object: a dict of its members
JsonLoad(doc) ==
  [k \in {m[1] : m \in doc} |-> (CHOOSE m \in doc : m[1] = k)[2]]

MissingFile    == [kind |-> "missing",    doc |-> {}]
CorruptFile    == [kind |-> "corrupt",    doc |-> {}]
UnreadableFile == [kind |-> "unreadable", doc |-> {}]
DocFile(doc)   == [kind |-> "doc",        doc |-> doc]

\* the files an engine can find when it is constructed
InitialFiles ==
  {MissingFile, CorruptFile, UnreadableFile}
    \cup { DocFile(JsonDump(m)) : m \in StrategyMaps }

\* lines 415-416: open the file and parse it; open raises on a file that
\* cannot be read, json.load on text that is not JSON
OpenAndLoad(file) ==
  IF file.kind = "unreadable" THEN [exc |-> "OSError", value |-> EmptyMap]
  ELSE IF file.kind = "corrupt" THEN [exc |-> "JSONDecodeError", value |-> EmptyMap]
  ELSE [exc |-> "none", value |-> JsonLoad(file.doc)]

\* variant: the handler catches the parse error only
load_strategy_config_narrow_except(file) ==
  IF file.kind # "missing"
    THEN LET r == OpenAndLoad(file)
         IN IF r.exc = "JSONDecodeError" THEN [exc |-> "none", value |-> EmptyMap]
            ELSE r
    ELSE [exc |-> "none", value |-> EmptyMap]

\* QuantEngine.load_strategy_config: {} for a missing file and, by the bare
\* except, for any exception of open or json.load
load_strategy_config(file) ==
  IF file.kind # "missing"
    THEN LET r == OpenAndLoad(file)
         IN IF r.exc # "none" THEN [exc |-> "none", value |-> EmptyMap]
            ELSE r
    ELSE [exc |-> "none", value |-> EmptyMap]

\* variant: the lock is consulted only to fall back on the default
ActiveStrategy_default_first(map, ticker, default_strategy) ==
  IF default_strategy \in Presets THEN default_strategy
  ELSE IF ticker \in DOMAIN map THEN map[ticker] ELSE default_strategy

\* dict.get(ticker, default_strategy)
ActiveStrategy(map, ticker, default_strategy) ==
  IF ticker \in DOMAIN map THEN map[ticker] ELSE default_strategy

\* self.strategy_map[ticker] = strategy
MapSet(map, ticker, strategy) ==
  [k \in DOMAIN map \cup {ticker} |-> IF k = ticker THEN strategy ELSE map[k]]

\* ------------------------------------------------------------------------
\* QuantEngine.diagnose_stock_pro
\*
\* A series is what the download and the indicator library deliver for one
\* ticker: the bar count and the last values of the indicators.  Prices are
\* in tenths, returns in percent; a ratio is a pair num/den with den > 0
\* and is compared by cross-multiplication.
\* ------------------------------------------------------------------------
MinBars == 60

Sma200Bars == 200

Ratio(num, den) == [num |-> num, den |-> den]

\* r < a/b and r > a/b for a ratio r and b > 0
RatioLt(r, a, b) == r.num * b < a * r.den

RatioGt(r, a, b) == r.num * b > a * r.den

Series(download, bars, curr, s200, s50, h20, l20, bbl, rsi, mh, pmh, atr, fear, vol, ret) ==
  [download |-> download, bars |-> bars, prev_price |-> 1000, curr_price |-> curr,
   sma200 |-> s200, sma50 |-> s50, high_20 |-> h20, low_20 |-> l20,
   bb_lower |-> bbl, rsi |-> rsi, macd_hist |-> mh, prev_macd_hist |-> pmh,
   atr |-> atr, macro_fear |-> fear, volume |-> vol[1], vol_ma |-> vol[2],
   ret_20 |-> ret[1], qqq_ret |-> ret[2], indicators |-> "ok"]

\* a download that raised, an empty frame and a listing of 59 bars
FailedSeries ==
  Series("error", 0, 1000, 0, 1000, 1000, 1000, 1000, 50, 0, 0, 10,
         "Normal", <<10, 10>>, <<0, 0>>)

EmptySeries ==
  Series("ok", 0, 1000, 0, 1000, 1000, 1000, 1000, 50, 0, 0, 10,
         "Normal", <<10, 10>>, <<0, 0>>)

YoungSeries ==
  Series("ok", MinBars - 1, 1000, 0, 1000, 1000, 1000, 1000, 50, 0, 0, 10,
         "Normal", <<10, 10>>, <<0, 0>>)

\* bar count and 200-day average: with fewer than 200 bars ta.sma(close,
\* 200) is None and the code takes sma200 = 0
LongAverages == { <<MinBars, 0>>, <<Sma200Bars, 995>>, <<Sma200Bars, 800>> }

FullSeries ==
  { Series("ok", la[1], curr, la[2], s50, h20, l20, bbl, rsi, mh, pmh, atr, fear, vol, ret) :
      la \in LongAverages, curr \in {900, 990, 1005, 1200}, s50 \in {950, 1100},
      h20 \in {1000, 1300}, l20 \in {800, 995}, bbl \in {850, 995},
      rsi \in {20, 28, 50}, mh \in {-2, 1}, pmh \in {-3, 2}, atr \in {10, 100},
      fear \in {"Normal", "High"},
      vol \in { <<5, 10>>, <<20, 10>>, <<30, 10>>, <<20, 0>> },
      ret \in { <<10, 0>>, <<10, 8>> } }

\* the same series when a lookup of lines 272-318 raises: the frame lacks
\* a column (df['Volume']) or the library names the band column otherwise
\* than bb['BBL_20_2.0']
IndicatorOutcomes == {"ok", "KeyError"}

LongSeries ==
  { [s EXCEPT !.indicators = i] : s \in FullSeries, i \in IndicatorOutcomes }

SeriesSet == {FailedSeries, EmptySeries, YoungSeries} \cup LongSeries

\* lines 277-318: the values the decision tree tests
Indicators(s) ==
  [curr_price |-> s.curr_price,
   prev_price |-> s.prev_price,
   day_chg |-> Ratio((s.curr_price - s.prev_price) * 100, s.prev_price),
   sma50 |-> s.sma50,
   has_sma200 |-> s.bars >= Sma200Bars,
   sma200 |-> IF s.bars >= Sma200Bars THEN s.sma200 ELSE 0,
   rsi |-> s.rsi,
   macd_hist |-> s.macd_hist,
   prev_macd_hist |-> s.prev_macd_hist,
   is_breakout |-> s.curr_price > s.high_20,
   is_breakdown |-> s.curr_price < s.low_20,
   bias_50 |-> Ratio((s.curr_price - s.sma50) * 100, s.sma50),
   atr_ratio |-> Ratio(s.atr, s.curr_price),
   rs_ratio |-> s.ret_20 - s.qqq_ret,
   vol_ratio |-> IF s.vol_ma > 0 THEN Ratio(s.volume, s.vol_ma) ELSE Ratio(1, 1),
   bb_lower |-> s.bb_lower,
   macro_fear |-> s.macro_fear]

\* QuantEngine._pack_result, without the texts shown to the user
_pack_result(code, name, tier) == [ID |-> code, State |-> name, Tier |-> tier]

NoDiagnosis == [ID |-> 0, State |-> "None", Tier |-> "none"]

AbsLt1(r) == RatioGt(r, -1, 1) /\ RatioLt(r, 1, 1)

\* variant: the volume-anomaly test of Tier 2 stands before the Tier 1
\* volatility test
DecisionTree_volume_first(v) ==
  IF RatioLt(v.day_chg, -9, 1)
    THEN _pack_result(10, "black swan", "Tier 1")
  ELSE IF v.has_sma200 /\ v.prev_price > v.sma200 /\ v.curr_price < v.sma200
          /\ RatioGt(v.vol_ratio, 3, 2)
    THEN _pack_result(6, "trend reversal", "Tier 1")
  ELSE IF RatioGt(v.vol_ratio, 5, 2) /\ RatioLt(v.day_chg, 0, 1)
    THEN _pack_result(8, "volume anomaly", "Tier 2")
  ELSE IF v.macro_fear = "High" /\ RatioGt(v.atr_ratio, 5, 100)
    THEN _pack_result(9, "high volatility", "Tier 1")
  ELSE IF v.is_breakout /\ v.rs_ratio > 5 /\ v.curr_price > v.sma50
    THEN _pack_result(1, "strong uptrend", "Tier 2")
  ELSE IF v.is_breakdown /\ v.curr_price < v.sma50
    THEN _pack_result(6, "structure break", "Tier 2")
  ELSE IF RatioGt(v.bias_50, 15, 1)
    THEN _pack_result(7, "bubble", "Tier 3")
  ELSE IF v.curr_price < v.bb_lower /\ v.rsi < 25
    THEN _pack_result(12, "oversold extreme", "Tier 3")
  ELSE IF v.has_sma200 /\ v.curr_price > v.sma200 /\ v.rsi > 30
          /\ v.macd_hist > v.prev_macd_hist /\ v.macd_hist < 0
    THEN _pack_result(4, "pullback complete", "Tier 3")
  ELSE IF v.macd_hist < 0 /\ v.prev_macd_hist > 0
    THEN _pack_result(13, "momentum fading", "Tier 3")
  ELSE IF v.curr_price > v.sma50 /\ RatioLt(v.day_chg, 0, 1)
    THEN _pack_result(2, "brief dip", "Tier 4")
  ELSE IF AbsLt1(v.day_chg) /\ RatioLt(v.vol_ratio, 8, 10)
    THEN _pack_result(11, "consolidation", "Tier 4")
  ELSE _pack_result(14, "style rotation", "Tier 4")

\* lines 320-391: the if chain, each test returning on success
DecisionTree(v) ==
  IF RatioLt(v.day_chg, -9, 1)
    THEN _pack_result(10, "black swan", "Tier 1")
  ELSE IF v.has_sma200 /\ v.prev_price > v.sma200 /\ v.curr_price < v.sma200
          /\ RatioGt(v.vol_ratio, 3, 2)
    THEN _pack_result(6, "trend reversal", "Tier 1")
  ELSE IF v.macro_fear = "High" /\ RatioGt(v.atr_ratio, 5, 100)
    THEN _pack_result(9, "high volatility", "Tier 1")
  ELSE IF RatioGt(v.vol_ratio, 5, 2) /\ RatioLt(v.day_chg, 0, 1)
    THEN _pack_result(8, "volume anomaly", "Tier 2")
  ELSE IF v.is_breakout /\ v.rs_ratio > 5 /\ v.curr_price > v.sma50
    THEN _pack_result(1, "strong uptrend", "Tier 2")
  ELSE IF v.is_breakdown /\ v.curr_price < v.sma50
    THEN _pack_result(6, "structure break", "Tier 2")
  ELSE IF RatioGt(v.bias_50, 15, 1)
    THEN _pack_result(7, "bubble", "Tier 3")
  ELSE IF v.curr_price < v.bb_lower /\ v.rsi < 25
    THEN _pack_result(12, "oversold extreme", "Tier 3")
  ELSE IF v.has_sma200 /\ v.curr_price > v.sma200 /\ v.rsi > 30
          /\ v.macd_hist > v.prev_macd_hist /\ v.macd_hist < 0
    THEN _pack_result(4, "pullback complete", "Tier 3")
  ELSE IF v.macd_hist < 0 /\ v.prev_macd_hist > 0
    THEN _pack_result(13, "momentum fading", "Tier 3")
  ELSE IF v.curr_price > v.sma50 /\ RatioLt(v.day_chg, 0, 1)
    THEN _pack_result(2, "brief dip", "Tier 4")
  ELSE IF AbsLt1(v.day_chg) /\ RatioLt(v.vol_ratio, 8, 10)
    THEN _pack_result(11, "consolidation", "Tier 4")
  ELSE _pack_result(14, "style rotation", "Tier 4")

Returns(value) == [exc |-> "none", value |-> value]

\* lines 257-269 and the tree: None for a failed or empty download (the
\* try of line 257 ends at line 269), the new-listing result below 60
\* bars; lines 272-318 run outside any try, so what they raise leaves the
\* method; the decision tree otherwise
diagnose_stock_pro(s) ==
  IF s.download = "error" THEN Returns(NoDiagnosis)
  ELSE IF s.bars = 0 THEN Returns(NoDiagnosis)
  ELSE IF s.bars < MinBars THEN Returns(_pack_result(15, "new listing", "Tier 4"))
  ELSE IF s.indicators # "ok" THEN [exc |-> s.indicators, value |-> NoDiagnosis]
  ELSE Returns(DecisionTree(Indicators(s)))

\* ------------------------------------------------------------------------
\* send_telegram_message and the push loop of app.py
\* ------------------------------------------------------------------------
\* st.secrets as the call finds it: whether a secrets file exists and
\* which of the two keys it holds
Secrets(file, token, chat) == [file |-> file, BOT_TOKEN |-> token, CHAT_ID |-> chat]

SecretStores ==
  { Secrets(TRUE, TRUE, TRUE), Secrets(TRUE, FALSE, TRUE),
    Secrets(TRUE, TRUE, FALSE), Secrets(FALSE, FALSE, FALSE) }

\* what requests.get(send_text, timeout=3) meets: an HTTP status (a 401
\* is a response, not an exception: nothing calls raise_for_status) or
\* the exception requests raises
Endpoints == {"200", "401", "ConnectionError", "Timeout"}

Channels == [secrets : SecretStores, endpoint : Endpoints]

\* subclasses of Exception among the exceptions the body can raise
ExceptionClasses == {"KeyError", "FileNotFoundError", "ConnectionError", "Timeout"}

Body(exc, gets, delivered) == [exc |-> exc, gets |-> gets, delivered |-> delivered]

\* lines 12-15, the body of the try: the two secret lookups, then one GET
TryBody(env) ==
  IF ~env.secrets.file THEN Body("FileNotFoundError", 0, FALSE)
  ELSE IF ~env.secrets.BOT_TOKEN THEN Body("KeyError", 0, FALSE)
  ELSE IF ~env.secrets.CHAT_ID THEN Body("KeyError", 0, FALSE)
  ELSE IF env.endpoint \in {"ConnectionError", "Timeout"}
    THEN Body(env.endpoint, 1, FALSE)
  ELSE Body("none", 1, env.endpoint = "200")

\* the outcome of one call: the exception that escapes, the value
\* returned, the GET requests issued and whether Telegram took the message
Outcome(b, caught) ==
  [exc |-> IF b.exc \in caught THEN "none" ELSE b.exc,
   value |-> "None", gets |-> b.gets, delivered |-> b.delivered]

\* variant: only the missing-secret lookup is caught
send_telegram_message_keyerror_only(env) == Outcome(TryBody(env), {"KeyError"})

\* send_telegram_message: except Exception: pass, and no return statement
send_telegram_message(env) == Outcome(TryBody(env), ExceptionClasses)

\* item['\u4fe1\u53f7'] as engine.get_signal_status and the strategies word it
Signals == {L_BUY, L_SELL, L_ProMode}

RECURSIVE Boards(_)
Boards(n) ==
  IF n = 0 THEN { << >> }
  ELSE Boards(n - 1) \cup { Append(b, g) : b \in {x \in Boards(n - 1) : Len(x) = n - 1}, g \in Signals }

\* app.py line 133: "BUY" in item[...] or "SELL" in item[...]
IsSignal(item) == Contains(L_BUY, item) \/ Contains(L_SELL, item)

\* ------------------------------------------------------------------------
\* QuantEngine.analyze_nasdaq_pro: the trend-strength label
\* ------------------------------------------------------------------------
AdxStrong == 25

AdxExtreme == 40

\* what ta.adx returns: None, or a frame whose last ADX_14 is NaN or a number
AdxNone == [k |-> "none", v |-> 0]

AdxNaN == [k |-> "nan", v |-> 0]

AdxNum(v) == [k |-> "num", v |-> v]

AdxFrames == {AdxNone, AdxNaN} \cup { AdxNum(v) : v \in 0..MaxAdx }

\* line 139: adx = adx_df['ADX_14'].iloc[-1] if adx_df is not None else 0
Adx(adx_df) == IF adx_df.k = "none" THEN AdxNum(0) ELSE adx_df

\* adx > n; every comparison with NaN is False
AdxGt(adx, n) == adx.k = "num" /\ adx.v > n

\* the labels of lines 200-202: "weak" is '\u5f31', "strong" is '\u5f3a',
\* "extreme" is '\u6781\u5f3a'
\* lines 200-202: if adx > 25 ... elif adx > 40 ...
TrendStr(adx) ==
  IF AdxGt(adx, AdxStrong) THEN "strong"
  ELSE IF AdxGt(adx, AdxExtreme) THEN "extreme"
  ELSE "weak"

\* what the downloads of line 116 deliver for QQQ, and the ADX frame
Quotes == [download : {"ok", "error", "empty"}, adx_df : AdxFrames]

NoQuotes == [download |-> "empty", adx_df |-> AdxNone]

NoRadar == [Trend_Str |-> "None", ADX |-> AdxNone]

\* lines 113-246 as far as Trend_Str and Metrics.ADX go: None when the
\* download fails or QQQ is empty
analyze_nasdaq_pro(q) ==
  IF q.download # "ok" THEN NoRadar
  ELSE [Trend_Str |-> TrendStr(Adx(q.adx_df)), ADX |-> Adx(q.adx_df)]

\* ------------------------------------------------------------------------
\* State machine
\* ------------------------------------------------------------------------
NoTable == [header |-> << >>, rows |-> << >>]

NoResult == [ok |-> FALSE, reason |-> "none", n |-> 0]

NoGet == [ticker |-> << >>, default_strategy |-> NoLock]

\* the state after engine = QuantEngine() (app.py line 11), for the config
\* files on disk, the market series and the mapper arguments under study
Constructed(files, market, calls, boards, quotes) ==
  /\ pc = "constructed"
  /\ portfolio = << >>
  /\ csv = NoTable
  /\ load_result = NoResult
  /\ map_args \in calls
  /\ map_result = << >>
  /\ config_file \in files
  /\ strategy_map = load_strategy_config(config_file).value
  /\ raised = load_strategy_config(config_file).exc
  /\ op = "construct"
  /\ get_args = NoGet
  /\ get_result = NoLock
  /\ series \in market
  /\ diagnosis = NoDiagnosis
  /\ page = "sidebar"
  /\ message = "none"
  /\ dashboard_data \in boards
  /\ push = "idle"
  /\ idx = 0
  /\ count = 0
  /\ sent = << >>
  /\ notice = "none"
  /\ qqq \in quotes
  /\ nasdaq = NoRadar

\* QuantEngine.__init__, run again by every page run: a fresh engine with
\* an empty DataFrame and the strategy map read from the config file
Construct ==
  LET r == load_strategy_config(config_file)
  IN /\ op' = "construct"
     /\ raised' = r.exc
     /\ strategy_map' = r.value
     /\ pc' = "constructed"
     /\ portfolio' = << >>
     /\ csv' = NoTable
     /\ load_result' = NoResult
     /\ page' = "sidebar"
     /\ message' = "none"
     /\ UNCHANGED <<config_file, mapper_vars, get_vars, diag_vars, push_vars, radar_vars>>

\* QuantEngine.load_portfolio, called once on a constructed engine
\* (app.py line 29): self.portfolio is assigned only on the success path,
\* both failure returns leave the DataFrame of __init__ in place
load_portfolio(t) ==
  LET result == LoadResult(t)
  IN /\ op' = "load"
     /\ raised' = "none"
     /\ pc' = "loaded"
     /\ csv' = t
     /\ load_result' = result
     /\ portfolio' = IF result.ok THEN PortfolioList(t) ELSE portfolio
     /\ UNCHANGED <<mapper_vars, store_vars, get_vars, diag_vars, push_vars, radar_vars>>

LoadPortfolio ==
  /\ pc = "constructed"
  /\ \E t \in Tables : load_portfolio(t)
  /\ UNCHANGED app_vars

\* a direct call of the mapper on the arguments at hand
MapSymbol ==
  /\ op' = "map"
  /\ raised' = "none"
  /\ map_result' = _map_symbol(map_args.symbol, map_args.exchange,
                               map_args.name, map_args.currency)
  /\ UNCHANGED <<map_args, loader_vars, store_vars, get_vars, diag_vars, app_vars, push_vars, radar_vars>>

\* variant: only the entry just set is written to the file
save_strategy_config_entry_only(ticker, strategy) ==
  /\ op' = "save"
  /\ raised' = "none"
  /\ strategy_map' = MapSet(strategy_map, ticker, strategy)
  /\ config_file' = DocFile(JsonDump(MapSet(EmptyMap, ticker, strategy)))
  /\ get_args' = [ticker |-> ticker, default_strategy |-> strategy]
  /\ UNCHANGED <<loader_vars, mapper_vars, get_result, diag_vars, app_vars, push_vars, radar_vars>>

\* QuantEngine.save_strategy_config: set the entry, then write the whole
\* map over the file.  get_args records the pair that was saved.
save_strategy_config(ticker, strategy) ==
  /\ op' = "save"
  /\ raised' = "none"
  /\ strategy_map' = MapSet(strategy_map, ticker, strategy)
  /\ config_file' = DocFile(JsonDump(strategy_map'))
  /\ get_args' = [ticker |-> ticker, default_strategy |-> strategy]
  /\ UNCHANGED <<loader_vars, mapper_vars, get_result, diag_vars, app_vars, push_vars, radar_vars>>

SaveStrategyConfig ==
  \E t \in Tickers, st \in Presets : save_strategy_config(t, st)

\* QuantEngine.get_active_strategy
get_active_strategy(ticker, default_strategy) ==
  /\ op' = "get"
  /\ raised' = "none"
  /\ get_args' = [ticker |-> ticker, default_strategy |-> default_strategy]
  /\ get_result' = ActiveStrategy(strategy_map, ticker, default_strategy)
  /\ UNCHANGED <<loader_vars, mapper_vars, store_vars, diag_vars, app_vars, push_vars, radar_vars>>

GetActiveStrategy ==
  \E t \in Tickers, d \in Defaults : get_active_strategy(t, d)

\* QuantEngine.diagnose_stock_pro on the series the download delivers; a
\* call that raises hands its caller no value
DiagnoseStockPro ==
  LET r == diagnose_stock_pro(series)
  IN /\ op' = "diagnose"
     /\ raised' = r.exc
     /\ diagnosis' = IF r.exc = "none" THEN r.value ELSE diagnosis
     /\ UNCHANGED <<series, loader_vars, mapper_vars, store_vars, get_vars, app_vars, push_vars, radar_vars>>

\* app.py lines 15-27: the sidebar picks the CSV source; without one the
\* page asks for an upload and st.stop() ends the run
SidebarWithoutSource ==
  /\ page = "sidebar"
  /\ page' = "stopped"
  /\ message' = "upload_request"
  /\ UNCHANGED <<pc, portfolio, csv, load_result, op, raised,
                 mapper_vars, store_vars, get_vars, diag_vars, push_vars, radar_vars>>

\* app.py line 29: engine.load_portfolio(csv_source) as an expression
\* statement; the pair it returns is dropped and the run goes on to the
\* spinner block of line 35
PageLoadPortfolio ==
  /\ page = "sidebar"
  /\ pc = "constructed"
  /\ \E t \in Tables : load_portfolio(t)
  /\ page' = "fetch"
  /\ UNCHANGED message

\* app.py line 36: engine.fetch_data_automatically(); QuantEngine defines
\* no such method, so the attribute lookup raises and the run ends there
PageFetchData ==
  /\ page = "fetch"
  /\ op' = "fetch"
  /\ raised' = "AttributeError"
  /\ page' = "crashed"
  /\ message' = "traceback"
  /\ UNCHANGED <<loader_vars, mapper_vars, store_vars, get_vars, diag_vars,
                 push_vars, radar_vars>>

InitApp == Constructed({MissingFile}, {EmptySeries}, {NoCall}, {<< >>}, {NoQuotes})

\* every widget interaction reruns the script from line 1
NextApp == Construct \/ SidebarWithoutSource \/ PageLoadPortfolio \/ PageFetchData

SpecApp == InitApp /\ [][NextApp]_vars

engine_vars ==
  <<loader_vars, mapper_vars, store_vars, get_vars, diag_vars, app_vars>>

\* app.py lines 130-131: the button is pressed, count = 0, the loop starts
PressPush ==
  /\ push = "idle"
  /\ push' = "looping"
  /\ idx' = 1
  /\ count' = 0
  /\ UNCHANGED <<dashboard_data, sent, notice, op, raised, engine_vars, radar_vars>>

\* app.py lines 132-137, one pass of the loop: a row whose signal names
\* BUY or SELL is sent and counted; an exception out of the call would
\* end the handler before count += 1
PushItem ==
  /\ push = "looping"
  /\ idx <= Len(dashboard_data)
  /\ op' = "push"
  /\ IF IsSignal(dashboard_data[idx])
       THEN \E env \in Channels :
              LET r == send_telegram_message(env)
              IN /\ sent' = Append(sent, [row |-> idx, env |-> env, result |-> r])
                 /\ raised' = r.exc
                 /\ IF r.exc = "none"
                      THEN /\ count' = count + 1
                           /\ idx' = idx + 1
                           /\ push' = push
                      ELSE /\ push' = "crashed"
                           /\ UNCHANGED <<count, idx>>
       ELSE /\ idx' = idx + 1
            /\ raised' = "none"
            /\ UNCHANGED <<count, sent, push>>
  /\ UNCHANGED <<dashboard_data, notice, engine_vars, radar_vars>>

\* app.py lines 138-139: the loop is over
PushDone ==
  /\ push = "looping"
  /\ idx > Len(dashboard_data)
  /\ push' = "done"
  /\ notice' = IF count > 0 THEN "success" ELSE "info"
  /\ UNCHANGED <<dashboard_data, idx, count, sent, op, raised, engine_vars, radar_vars>>

InitPush ==
  Constructed({MissingFile}, {EmptySeries}, {NoCall}, Boards(MaxItems), {NoQuotes})

NextPush == PressPush \/ PushItem \/ PushDone

SpecPush == InitPush /\ [][NextPush]_vars

\* QuantEngine.analyze_nasdaq_pro on what the downloads deliver
AnalyzeNasdaqPro ==
  /\ op' = "radar"
  /\ raised' = "none"
  /\ nasdaq' = analyze_nasdaq_pro(qqq)
  /\ UNCHANGED <<qqq, engine_vars, push_vars>>

InitRadar == Constructed({MissingFile}, {EmptySeries}, {NoCall}, {<< >>}, Quotes)

NextRadar == AnalyzeNasdaqPro

SpecRadar == InitRadar /\ [][NextRadar]_vars

InitLoader == Constructed({MissingFile}, {EmptySeries}, {NoCall}, {<< >>}, {NoQuotes})

InitDiag == Constructed({MissingFile}, SeriesSet, {NoCall}, {<< >>}, {NoQuotes})

InitMapper == Constructed({MissingFile}, {EmptySeries}, MapCalls, {<< >>}, {NoQuotes})

NextLoader == Construct \/ LoadPortfolio

SpecLoader == InitLoader /\ [][NextLoader]_vars

NextMapper == MapSymbol

SpecMapper == InitMapper /\ [][NextMapper]_vars

NextStore == Construct \/ SaveStrategyConfig \/ GetActiveStrategy

InitStore == Constructed(InitialFiles, {EmptySeries}, {NoCall}, {<< >>}, {NoQuotes})

SpecStore == InitStore /\ [][NextStore]_vars

NextDiag == DiagnoseStockPro

SpecDiag == InitDiag /\ [][NextDiag]_vars

\* ========================================================================
\* Properties
\* ========================================================================
Loaded == pc = "loaded" /\ load_result.ok

Called == op = "map"

\* a Symbol cell that is null, empty, whitespace-only or the text 'nan'
BlankSymbol(cell) ==
  \/ cell.k = "nan"
  \/ /\ cell.k = "str"
     /\ LET text == SelectSeq(cell.s, LAMBDA c : ~IsSpace(c))
        IN text = << >> \/ Lower(Strip(cell.s)) = L_nan

\* a resolved symbol that holds the invalid placeholder
HasPlaceholder(ticker) == Contains(L_nan, Lower(ticker))

\* C1: a load of a table with a Symbol column keeps, in order, exactly the
\* rows whose Symbol is not null, empty, whitespace-only or 'nan' and whose
\* resolved symbol does not hold the placeholder; a kept record carries the
\* stripped symbol text.
C1_BlankSymbolRowsExcluded ==
  Loaded =>
    LET kept == SelectSeq(csv.rows,
                  LAMBDA r : ~BlankSymbol(r.Symbol) /\ ~HasPlaceholder(RowTicker(csv, r)))
    IN /\ Len(portfolio) = Len(kept)
       /\ \A i \in 1..Len(kept) :
            /\ portfolio[i].Symbol = Strip(kept[i].Symbol.s)
            /\ portfolio[i].Symbol # << >>

C1_Witness ==
  /\ Loaded
  /\ \E i \in 1..Len(csv.rows) : csv.rows[i].Symbol = StrCell(T_blank)
  /\ Len(portfolio) = Len(csv.rows) - 1
  /\ Len(portfolio) > 0

\* C2: load_portfolio returns success only together with a non-empty
\* Holding table; a table whose rows are all skipped yields a failure.
C2_SuccessIsNonEmpty ==
  pc = "loaded" /\ load_result.ok => Len(portfolio) > 0

\* C3: after a load_portfolio call no Holding record has a resolved symbol
\* that contains 'nan' in any letter case.
C3_NoPlaceholderTicker ==
  pc = "loaded" =>
    \A i \in 1..Len(portfolio) : ~HasPlaceholder(portfolio[i].YF_Ticker)

C3_Witness ==
  /\ Loaded
  /\ \E i \in 1..Len(csv.rows) :
       /\ ~BlankSymbol(csv.rows[i].Symbol)
       /\ HasPlaceholder(RowTicker(csv, csv.rows[i]))
  /\ Len(portfolio) = Len(csv.rows) - 1
  /\ Len(portfolio) > 0

\* quantity > 0, as Python compares: false for NaN
PositiveQty(q) == ~q.nan /\ q.v > 0

\* C4: a row whose Quantity is zero, negative or unparsable is excluded, so
\* the Holding table holds just the records of the rows that pass the
\* symbol tests and have quantity > 0.
C4_NonPositiveQuantityExcluded ==
  Loaded =>
    LET kept == SelectSeq(csv.rows,
                  LAMBDA r : RowKept(csv, r) /\ PositiveQty(RowQty(csv, r)))
    IN portfolio = [i \in 1..Len(kept) |-> RowRecord(csv, kept[i])]

\* C5: the symbol GOLD, in any letter case, with a display name that does
\* not contain BARRICK resolves to the futures symbol GC=F whatever the
\* exchange and the currency are, and never to GOLD.
C5_GoldOverride ==
  Called /\ Upper(map_args.symbol) = L_GOLD
         /\ ~Contains(L_BARRICK, Upper(map_args.name))
    => map_result = L_GCF /\ map_result # L_GOLD

C5_Witness ==
  /\ map_args = [symbol |-> L_GOLD, exchange |-> << >>,
                 name |-> T_Bullion, currency |-> << >>]
  /\ map_result = L_GCF

\* the six rules in the stated order, rule 3 decided on the name and the
\* exchange label alone
OrderedRules(symbol, exchange, name, currency) ==
  LET symbol_upper == Upper(symbol)
  IN IF symbol_upper = L_GOLD /\ ~Contains(L_BARRICK, Upper(name))
       THEN L_GCF
     ELSE IF Contains(<<".">>, symbol_upper)
             /\ (Contains(L_TO, symbol_upper) \/ Contains(L_NE, symbol_upper))
       THEN symbol_upper
     ELSE IF Contains(L_CDR, Upper(name)) \/ Contains(L_NEO, exchange)
       THEN ReplaceChar(symbol_upper, ".", "-") \o L_dotNE
     ELSE IF Upper(currency) = L_CAD
       THEN ReplaceChar(symbol_upper, ".", "-") \o L_dotTO
     ELSE IF (exchange = << >> \/ Lower(exchange) = L_nan)
             /\ symbol_upper \in crypto_list
       THEN symbol_upper \o L_USD
     ELSE symbol_upper

\* C6: _map_symbol resolves by the six rules in the stated order, first
\* match wins; the depository-receipt and exchange-label rule is decided
\* before, and independently of, the currency fallback.
C6_OrderedResolution ==
  Called =>
    map_result = OrderedRules(map_args.symbol, map_args.exchange,
                              map_args.name, map_args.currency)

Damaged(file) == file.kind \in {"missing", "corrupt", "unreadable"}

\* C7: get_active_strategy returns the locked preset when the map has an
\* entry for the symbol and exactly the default when it has none, and the
\* call changes neither the in-memory map nor the persisted file.
C7_GetReturnsLockOrDefault ==
  /\ [](op = "get" =>
          /\ get_args.ticker \in DOMAIN strategy_map
               => get_result = strategy_map[get_args.ticker]
          /\ get_args.ticker \notin DOMAIN strategy_map
               => get_result = get_args.default_strategy)
  /\ [][op' = "get" => strategy_map' = strategy_map /\ config_file' = config_file]_vars

C7_Witness ==
  /\ op = "get"
  /\ get_args.ticker \in DOMAIN strategy_map
  /\ get_args.default_strategy # strategy_map[get_args.ticker]
  /\ get_result = strategy_map[get_args.ticker]
  /\ Cardinality(DOMAIN strategy_map) = 1

C9_DamagedFileGivesEmptyMap ==
  /\ op = "construct" => raised = "none"
  /\ Damaged(config_file) =>
       /\ strategy_map = EmptyMap
       /\ op = "get" => get_result = get_args.default_strategy

C9_Witness ==
  /\ op = "get"
  /\ config_file = UnreadableFile
  /\ get_args.default_strategy \in Presets
  /\ get_result = get_args.default_strategy

\* the branch tests in the stated order, with the ID and tier of each
Branches(v) ==
  << [id |-> 10, tier |-> 1, holds |-> RatioLt(v.day_chg, -9, 1)],
     [id |-> 6,  tier |-> 1,
      holds |-> v.has_sma200 /\ v.prev_price > v.sma200 /\ v.curr_price < v.sma200
                /\ RatioGt(v.vol_ratio, 3, 2)],
     [id |-> 9,  tier |-> 1,
      holds |-> v.macro_fear = "High" /\ RatioGt(v.atr_ratio, 5, 100)],
     [id |-> 8,  tier |-> 2,
      holds |-> RatioGt(v.vol_ratio, 5, 2) /\ RatioLt(v.day_chg, 0, 1)],
     [id |-> 1,  tier |-> 2,
      holds |-> v.is_breakout /\ v.rs_ratio > 5 /\ v.curr_price > v.sma50],
     [id |-> 6,  tier |-> 2,
      holds |-> v.is_breakdown /\ v.curr_price < v.sma50],
     [id |-> 7,  tier |-> 3, holds |-> RatioGt(v.bias_50, 15, 1)],
     [id |-> 12, tier |-> 3,
      holds |-> v.curr_price < v.bb_lower /\ v.rsi < 25],
     [id |-> 4,  tier |-> 3,
      holds |-> v.has_sma200 /\ v.curr_price > v.sma200 /\ v.rsi > 30
                /\ v.macd_hist > v.prev_macd_hist /\ v.macd_hist < 0],
     [id |-> 13, tier |-> 3,
      holds |-> v.macd_hist < 0 /\ v.prev_macd_hist > 0],
     [id |-> 2,  tier |-> 4,
      holds |-> v.curr_price > v.sma50 /\ RatioLt(v.day_chg, 0, 1)],
     [id |-> 11, tier |-> 4,
      holds |-> AbsLt1(v.day_chg) /\ RatioLt(v.vol_ratio, 8, 10)] >>

TierName(n) == <<"Tier 1", "Tier 2", "Tier 3", "Tier 4">>[n]

\* a call that reached the decision tree: the series passed the length
\* check and its indicator values were computed
Diagnosed ==
  /\ op = "diagnose"
  /\ series.download = "ok"
  /\ series.bars >= MinBars
  /\ series.indicators = "ok"

\* C10: for a series of at least 60 bars the diagnosis is that of the first
\* branch, in the order 10, 6, 9 | 8, 1, 6 | 7, 12, 4, 13 | 2, 11, whose test
\* holds; no branch of a higher tier holds then; the catch-all 14 of Tier 4
\* is returned exactly when no test holds.
C10_FirstTrueBranchWins ==
  Diagnosed =>
    LET b == Branches(Indicators(series))
        true == {i \in 1..Len(b) : b[i].holds}
    IN /\ true = {} <=> diagnosis.ID = 14
       /\ true = {} => diagnosis.Tier = TierName(4)
       /\ true # {} =>
            LET first == CHOOSE i \in true : \A j \in true : i <= j
            IN /\ diagnosis.ID = b[first].id
               /\ diagnosis.Tier = TierName(b[first].tier)
               /\ \A j \in true : b[j].tier >= b[first].tier

\* a Tier 2 diagnosis while the tests of Tier 3 and Tier 4 also hold
C10_Witness ==
  /\ Diagnosed
  /\ diagnosis.ID = 8
  /\ LET b == Branches(Indicators(series))
     IN b[10].holds /\ b[11].holds /\ ~b[1].holds /\ ~b[3].holds

\* C11: an exception raised while the indicators of a fetched series of at
\* least 60 bars are computed never leaves diagnose_stock_pro: the call
\* returns, with a no-data outcome for that asset.
C11_IndicatorErrorsDegrade ==
  op = "diagnose" /\ series.download = "ok" /\ series.bars >= MinBars
    => raised = "none"

\* C12: a load that reports failure is shown to the user as a blocking
\* message and the page run stops there: it never goes on to the data
\* fetch, the radar or the portfolio table.
C12_FailedLoadHaltsPage ==
  (pc = "loaded" /\ ~load_result.ok)
     => (page = "stopped" /\ message = load_result.reason)

\* the dashboard rows whose signal the push loop sends
SignalRows == {i \in 1..Len(dashboard_data) : IsSignal(dashboard_data[i])}

AllSecrets == Secrets(TRUE, TRUE, TRUE)

C14_ThreeLevelTrend ==
  (op = "radar" /\ qqq.download = "ok" /\ nasdaq.ADX.k = "num") =>
     nasdaq.Trend_Str =
       IF nasdaq.ADX.v > AdxExtreme THEN "extreme"
       ELSE IF nasdaq.ADX.v > AdxStrong THEN "strong"
       ELSE "weak"

====
